---- MODULE Spec2Model ----
(***************************************************************************)
(* Model of the SR-web-viewer image pipeline (app/image_utils.py and the   *)
(* request handlers of app/main.py): discovery of complete image sets,     *)
(* the lru_cache of decoded and normalized images, and the preview         *)
(* endpoint.                                                               *)
(***************************************************************************)
EXTENDS Integers, Sequences, FiniteSets, TLC

VARIABLES
    disk,            \* the three directories: file -> kind of content
    findCache,       \* lru_cache(maxsize=1) of find_available_image_sets
    scanCount,       \* ghost: how many times the body of the scan has run
    firstReturned,   \* ghost: what the first find_available_image_sets call returned
    findReturned,    \* ghost: what the latest find_available_image_sets call returned
    findCalls,       \* ghost: number of find_available_image_sets calls so far
    available_sets,  \* app_state["available_sets"]
    started,         \* the lifespan hook has run up to its yield
    mounted,         \* names of the static routes mounted when main.py was imported
    cache,           \* lru_cache(maxsize=32) of load_full_image: entries, oldest first
    since,           \* ghost: path -> the other paths accessed since its last access
    reloaded,        \* ghost: paths that missed again after an earlier load
    handler,         \* per request handler: position, arguments, locals, response
    served,          \* ghost: number of requests accepted so far
    diskOps,         \* ghost: number of changes made to the directories so far
    img_shape,       \* img.shape[:2] of the raster given to create_low_res_preview
    resample         \* what create_low_res_preview made of it, and the response

vars == <<disk, findCache, scanCount, firstReturned, findReturned, findCalls,
          available_sets, started, mounted, cache, since, reloaded, handler, served,
          diskOps, img_shape, resample>>

discoveryVars == <<findCache, scanCount, firstReturned, findReturned, findCalls>>
cacheVars == <<cache, since, reloaded>>
previewVars == <<img_shape, resample>>

----------------------------------------------------------------------------
(* Configuration (image_utils.py lines 13-15) and file names.               *)

REFERENCE_DIR == "REFERENCE_DIR"
IMAGE_DIR_1 == "IMAGE_DIR_1"
IMAGE_DIR_2 == "IMAGE_DIR_2"

\* The four file-name suffixes of get_filenames.
SFX_TL == "-4x_cropped.png"
SFX_TR == "-20x.png"
SFX_BL == "-4x_cropped_HAT_RAW_FDL_grayscale_v2_TEST.png"
SFX_BR == "-4x_cropped_HAT_DUAL_earlyfusion_FDL_grayscale_v2_TEST.png"

Quadrants == {"tl", "tr", "bl", "br"}

\* A path is os.path.join(dir, stem + suffix); the stem is a sequence of
\* one-character strings so that the glob and the regular expression can
\* look at its characters.
Path(dir, stem, sfx) == [dir |-> dir, stem |-> stem, sfx |-> sfx]

get_filenames(number_str) ==
    [q \in Quadrants |->
        CASE q = "tl" -> Path(REFERENCE_DIR, number_str, SFX_TL)
          [] q = "tr" -> Path(REFERENCE_DIR, number_str, SFX_TR)
          [] q = "bl" -> Path(IMAGE_DIR_1, number_str, SFX_BL)
          [] q = "br" -> Path(IMAGE_DIR_2, number_str, SFX_BR)]

\* Kinds of file content: no file, a file cv2.imread cannot decode, a
\* 4-channel PNG (decodes, but cvtColor(BGR2LAB) raises cv2.error on it),
\* and a grayscale or 3-channel image.
Missing == "missing"
FileKinds == {"missing", "corrupt", "rgba", "img"}

\* os.path.exists(f) on directories d.
exists(d, f) == f \in DOMAIN d /\ d[f] # Missing

----------------------------------------------------------------------------
(* Characters and the order Python's sorted() gives strings.                *)

Digits == {"0", "1", "2", "3", "4", "5", "6", "7", "8", "9"}

Ord(c) ==
    CASE c = "0" -> 48 [] c = "1" -> 49 [] c = "2" -> 50 [] c = "3" -> 51
      [] c = "4" -> 52 [] c = "5" -> 53 [] c = "6" -> 54 [] c = "7" -> 55
      [] c = "8" -> 56 [] c = "9" -> 57 [] c = "a" -> 97

RECURSIVE StrLess(_, _)
StrLess(s, t) ==
    IF t = <<>> THEN FALSE
    ELSE IF s = <<>> THEN TRUE
    ELSE IF Ord(Head(s)) # Ord(Head(t)) THEN Ord(Head(s)) < Ord(Head(t))
    ELSE StrLess(Tail(s), Tail(t))

\* sorted(list(S)) for a set S of strings.
RECURSIVE sorted(_)
sorted(S) ==
    IF S = {} THEN <<>>
    ELSE LET m == CHOOSE x \in S : \A y \in S \ {x} : StrLess(x, y)
         IN  <<m>> \o sorted(S \ {m})

Range(s) == {s[i] : i \in 1..Len(s)}

----------------------------------------------------------------------------
(* Image discovery (image_utils.py lines 34-70).                            *)

KeyLen == 4

IsDigits(s) == \A i \in 1..Len(s) : s[i] \in Digits

\* glob.glob(os.path.join(REFERENCE_DIR, "????-4x_cropped.png")) on d.
glob(d) ==
    {f \in DOMAIN d : /\ exists(d, f)
                      /\ f.dir = REFERENCE_DIR
                      /\ f.sfx = SFX_TL
                      /\ Len(f.stem) = KeyLen}

\* num_pattern.search(os.path.basename(f)) for (\d{4})-4x_cropped\.png$ :
\* the pattern is anchored at the end only, so it matches the last four
\* characters before the suffix.
num_pattern_matches(f) ==
    /\ f.sfx = SFX_TL
    /\ Len(f.stem) >= KeyLen
    /\ IsDigits(SubSeq(f.stem, Len(f.stem) - KeyLen + 1, Len(f.stem)))

num_pattern_group(f) == SubSeq(f.stem, Len(f.stem) - KeyLen + 1, Len(f.stem))

potential_numbers(d) ==
    {num_pattern_group(f) : f \in {g \in glob(d) : num_pattern_matches(g)}}

\* Mutant of all_exist: any() where the code has all().
some_exist(d, num) == \E q \in Quadrants : exists(d, get_filenames(num)[q])

\* all(os.path.exists(f) for f in get_filenames(num).values())
all_exist(d, num) == \A q \in Quadrants : exists(d, get_filenames(num)[q])

complete_sets(d) ==
    SelectSeq(sorted(potential_numbers(d)), LAMBDA num : all_exist(d, num))

\* The body of find_available_image_sets, run on directories d.
find_body(d) == IF potential_numbers(d) = {} THEN <<>> ELSE complete_sets(d)

\* The lru_cache(maxsize=1) wrapper of the zero-argument function: a hit
\* returns the stored list, a miss runs the body and stores its result.
NoMemo == [filled |-> FALSE, value |-> <<>>]

\* Mutant of find_hit: the function without its lru_cache decorator.
find_hit_never == FALSE

find_hit == findCache.filled

find_result == IF find_hit THEN findCache.value ELSE find_body(disk)

\* One call of find_available_image_sets(); the caller reads find_result.
find_available_image_sets ==
    /\ findCache' = [filled |-> TRUE, value |-> find_result]
    /\ scanCount' = IF find_hit THEN scanCount ELSE scanCount + 1
    /\ findReturned' = find_result
    /\ firstReturned' = IF findCalls = 0 THEN find_result ELSE firstReturned
    /\ findCalls' = findCalls + 1

----------------------------------------------------------------------------
(* Image processing (image_utils.py lines 75-149).                          *)

\* A decoded image: the kind of file it was decoded from and whether CLAHE
\* has been applied to it. None is Python's None.
Raster(kind) == [ok |-> TRUE, kind |-> kind, clahe |-> FALSE]
None == [ok |-> FALSE, kind |-> "None", clahe |-> FALSE]
\* An exception leaving a function.
Raised == [ok |-> FALSE, kind |-> "raised", clahe |-> FALSE]

\* What the environment may do to one call: nothing, or make it raise an
\* exception that is not cv2.error (MemoryError, ...).
Faults == {"none", "exception"}

\* cv2.imread(filepath, cv2.IMREAD_UNCHANGED) of a file of the given kind.
imread(kind, fault) ==
    IF fault = "exception" THEN Raised
    ELSE IF kind \in {"missing", "corrupt"} THEN None
    ELSE Raster(kind)

\* The CLAHE pipeline raises cv2.error on a 4-channel image (BGR2LAB).
clahe_raises_cv2_error(img) == img.kind = "rgba"

normalize_image(img, fault) ==
    IF img = None THEN None
    ELSE IF fault = "exception" THEN Raised
    ELSE IF clahe_raises_cv2_error(img) THEN img
    ELSE [img EXCEPT !.clahe = TRUE]

\* The body of load_full_image from the imread on (lines 112-122), on a
\* file of the given kind.
load_decode(kind, imreadFault, normFault) ==
    LET img == imread(kind, imreadFault)
        res == IF img = Raised THEN Raised
               ELSE IF img = None THEN None
               ELSE normalize_image(img, normFault)
    IN  IF res = Raised THEN None ELSE res

\* create_low_res_preview(img): the JPEG bytes, or NoBytes for None.
\* What happens inside: cv2.resize or cv2.imencode raises, imencode reports
\* no success, or both work.
NoBytes == [jpeg |-> FALSE, of |-> None]
PreviewOutcomes == {"ok", "exception", "encode_fail"}

create_low_res_preview(img, outcome) ==
    IF img = None THEN NoBytes
    ELSE IF outcome = "exception" THEN NoBytes
    ELSE IF outcome = "encode_fail" THEN NoBytes
    ELSE [jpeg |-> TRUE, of |-> img]

\* The resample of create_low_res_preview (lines 133-139). A shape is
\* img.shape[:2], height first.
Width == 400

Shape(h, w) == [h |-> h, w |-> w]
NoShape == Shape(0, 0)
NotResampled == [called |-> FALSE, new_w |-> 0, new_h |-> 0, outcome |-> "not_called",
                 status |-> 0]

\* Lines 135-137: scale = width / w; new_h = int(h * scale); new_w = width.
\* int() drops the fraction of a positive float; on the shapes of the model
\* the float product and the exact quotient have the same integer part.
dsize(shape, width) == [new_w |-> width, new_h |-> (shape.h * width) \div shape.w]

\* cv2.resize raises cv2.error for an empty dsize.
resize_raises(d) == d.new_w < 1 \/ d.new_h < 1

\* Which way create_low_res_preview goes on a raster of the given shape
\* when nothing else fails.
resample_outcome(shape, width) ==
    IF resize_raises(dsize(shape, width)) THEN "exception" ELSE "ok"

----------------------------------------------------------------------------
(* The lru_cache(maxsize=32) around load_full_image (line 102).             *)

maxsize == 32

Entry(p, v) == [key |-> p, value |-> v]
CacheKeys(c) == {c[i].key : i \in 1..Len(c)}
cache_get(c, p) == c[CHOOSE i \in 1..Len(c) : c[i].key = p].value

\* Mutant of cache_hit: a hit that leaves the order alone (first in, first
\* out).
cache_hit_no_move(c, p) == c

\* Mutant of cache_hit: a hit that adds the entry at the recent end and
\* leaves the old one in place.
cache_hit_no_unlink(c, p) == Append(c, Entry(p, cache_get(c, p)))

\* A hit moves the entry to the most-recently-used end.
cache_hit(c, p) ==
    SelectSeq(c, LAMBDA e : e.key # p) \o <<Entry(p, cache_get(c, p))>>

\* Mutant of cache_put: a cache that never evicts (maxsize=None).
cache_put_no_evict(c, p, v) ==
    IF p \in CacheKeys(c) THEN c ELSE Append(c, Entry(p, v))

\* Mutant of cache_put: load_full_image without the lru_cache decorator.
cache_put_dropped(c, p, v) == c

\* Storing the result of a miss: nothing if the key got in meanwhile, else
\* the oldest entry goes when the cache is full.
cache_put(c, p, v) ==
    IF p \in CacheKeys(c) THEN c
    ELSE IF Len(c) >= maxsize THEN Append(Tail(c), Entry(p, v))
    ELSE Append(c, Entry(p, v))

\* Ghost: p has just been accessed.
Accessed(s, p) ==
    [x \in DOMAIN s \cup {p} |-> IF x = p THEN {} ELSE s[x] \cup {p}]

\* Ghost: the result of a miss on p is being stored.
Missed(p) == IF p \in DOMAIN since THEN reloaded \cup {p} ELSE reloaded

----------------------------------------------------------------------------
(* Keys, files and request inputs of the model.                             *)

Digit(n) ==
    CASE n = 0 -> "0" [] n = 1 -> "1" [] n = 2 -> "2" [] n = 3 -> "3"
      [] n = 4 -> "4" [] n = 5 -> "5" [] n = 6 -> "6" [] n = 7 -> "7"
      [] n = 8 -> "8" [] n = 9 -> "9"

\* The zero-padded 4-digit key of n < 100.
Key(n) == <<"0", "0", Digit(n \div 10), Digit(n % 10)>>

QuadrantSeq == <<"tl", "tr", "bl", "br">>
FilesOf(keys) == {get_filenames(k)[q] : k \in keys, q \in Quadrants}

\* Discovery: keys 0001..MaxKey, plus two files the glob or the regular
\* expression must reject: a 4-character stem that is no number and a
\* 5-digit stem.
MaxKey == 2
MaxFindCalls == 2
DiscoveryKeys == {Key(n) : n \in 1..MaxKey}
OddFiles == {Path(REFERENCE_DIR, <<"0", "0", "a", "1">>, SFX_TL),
             Path(REFERENCE_DIR, <<"0", "0", "0", "1", "2">>, SFX_TL)}
DiscoveryFiles == FilesOf(DiscoveryKeys) \cup OddFiles

\* The service: the directories hold the files of ServiceKeys; requests
\* name the keys of ReqKeys and these quadrants ("xx" is no quadrant).
ServiceKeys == {Key(1)}
ReqKeys == {Key(1), Key(2)}
ReqQuadrants == {"tl", "br", "xx"}
ServiceFiles == FilesOf(ServiceKeys)
Handlers == {"h1", "h2"}
MaxRequests == 2
MaxDiskOps == 1

\* The cache alone: NumCachePaths valid paths, the first NumHot of which
\* may be asked for again at any time; the others are asked for once, in
\* order.
NumCachePaths == 34
NumHot == 1
CachePath(i) == get_filenames(Key((i - 1) \div 4 + 1))[QuadrantSeq[((i - 1) % 4) + 1]]
CachePaths == {CachePath(i) : i \in 1..NumCachePaths}

----------------------------------------------------------------------------
(* State of a request handler of GET /api/image-preview.                    *)

NotCalled == [ok |-> FALSE, kind |-> "not_called", clahe |-> FALSE]

\* No JSON object in the response.
NoUrls == [q \in {} |-> ""]

Idle == [pc |-> "idle", endpoint |-> "", set_number |-> <<>>, quadrant |-> "",
         status |-> 0, body |-> NoBytes, sets |-> <<>>, urls |-> NoUrls,
         existed |-> FALSE, hit |-> FALSE, decoded |-> FALSE,
         loaded |-> NotCalled, preview |-> "not_called"]

\* The requests of the model: GET /api/image-sets, /api/image-urls/{k} and
\* /api/image-preview/{k}/{q}.
Request(endpoint, k, q) == [endpoint |-> endpoint, set_number |-> k, quadrant |-> q]
Requests ==
    {Request("sets", <<>>, "")}
    \cup {Request("urls", k, "") : k \in ReqKeys}
    \cup {Request("preview", k, q) : k \in ReqKeys, q \in ReqQuadrants}

filepath(h) == get_filenames(handler[h].set_number)[handler[h].quadrant]

\* The handlers are coroutines (async def) without an await: the event
\* loop runs one of them to its end before it starts another.
Running(g) == handler[g].pc \in {"load", "decode"}

\* Mutant of CanStart: handlers declared with def, which run on the
\* thread pool side by side.
CanStart_threaded(h) == TRUE

CanStart(h) == \A g \in Handlers : ~Running(g)

\* Mutant of startup_complete: requests served without waiting for the
\* startup half of lifespan.
startup_not_awaited == TRUE

\* app = FastAPI(lifespan=lifespan): requests are served once lifespan has
\* reached its yield.
startup_complete == started

\* Mutant of set_not_found: the handler without its registry check.
set_not_found_skipped(h) == FALSE

\* Lines 87 and 106: set_number not in app_state["available_sets"].
set_not_found(h) == handler[h].set_number \notin Range(available_sets)

\* Mutant of path_not_found: the handler without the check of line 115.
path_not_found_skipped(h) == FALSE

\* Line 115: not filepath or not os.path.exists(filepath).
path_not_found(h) == ~exists(disk, filepath(h))

\* raise HTTPException(status_code=...)
HTTPException(r, code) == [r EXCEPT !.pc = "done", !.status = code]

\* Mutant of respond: the handler without the check of line 125.
respond_unchecked(r, full_image, outcome) ==
    LET preview_bytes == create_low_res_preview(full_image, outcome)
        r1 == [r EXCEPT !.loaded = full_image]
    IN  IF full_image = None THEN HTTPException(r1, 404)
        ELSE [r1 EXCEPT !.pc = "done", !.status = 200,
                        !.body = preview_bytes, !.preview = outcome]

\* Lines 120-129 of get_image_preview, given what load_full_image returned.
respond(r, full_image, outcome) ==
    LET preview_bytes == create_low_res_preview(full_image, outcome)
        r1 == [r EXCEPT !.loaded = full_image]
    IN  IF full_image = None THEN HTTPException(r1, 404)
        ELSE IF preview_bytes = NoBytes
             THEN HTTPException([r1 EXCEPT !.preview = outcome], 500)
        ELSE [r1 EXCEPT !.pc = "done", !.status = 200,
                        !.body = preview_bytes, !.preview = outcome]

----------------------------------------------------------------------------
(* Static routes and URLs (main.py lines 16-37 and 54-63).                  *)

Dirs == {REFERENCE_DIR, IMAGE_DIR_1, IMAGE_DIR_2}

\* Lines 54-63: the three mounts in one try block; StaticFiles raises
\* RuntimeError for a directory that does not exist, and the mounts after
\* it are not made.
mount_static(dirs) ==
    IF REFERENCE_DIR \notin dirs THEN {}
    ELSE IF IMAGE_DIR_1 \notin dirs THEN {"static_ref"}
    ELSE IF IMAGE_DIR_2 \notin dirs THEN {"static_ref", "static_img1"}
    ELSE {"static_ref", "static_img1", "static_img2"}

\* os.path.basename of a path.
basename(f) == [stem |-> f.stem, sfx |-> f.sfx]

\* str(request.url_for(name, path=...)).
url_for(name, path) == [route |-> name, path |-> path]

route_of(q) ==
    CASE q = "tl" -> "static_ref" [] q = "tr" -> "static_ref"
      [] q = "bl" -> "static_img1" [] q = "br" -> "static_img2"

\* Mutant of get_image_urls_for_set: the bottom-right URL left out.
get_image_urls_for_set_no_br(set_number) ==
    IF \E q \in Quadrants : route_of(q) \notin mounted THEN NoUrls
    ELSE [q \in {"tl", "tr", "bl"} |->
            url_for(route_of(q), basename(get_filenames(set_number)[q]))]

\* get_image_urls_for_set: url_for raises for a route that is not mounted,
\* and the function then returns None.
get_image_urls_for_set(set_number) ==
    IF \E q \in Quadrants : route_of(q) \notin mounted THEN NoUrls
    ELSE [q \in Quadrants |->
            url_for(route_of(q), basename(get_filenames(set_number)[q]))]

----------------------------------------------------------------------------
(* Actions.                                                                 *)

\* Another process writes, replaces or deletes a file of the directories.
DiskWrite(f, kind) ==
    /\ diskOps < MaxDiskOps
    /\ disk[f] # kind
    /\ disk' = [disk EXCEPT ![f] = kind]
    /\ diskOps' = diskOps + 1
    /\ UNCHANGED <<discoveryVars, available_sets, started, mounted, cacheVars,
                   handler, served, previewVars>>

\* A direct call of find_available_image_sets().
FindCall ==
    /\ findCalls < MaxFindCalls
    /\ find_available_image_sets
    /\ UNCHANGED <<disk, available_sets, started, mounted, cacheVars, handler,
                   served, diskOps, previewVars>>

\* The startup half of lifespan (main.py lines 41-47).
lifespan ==
    /\ ~started
    /\ find_available_image_sets
    /\ available_sets' = find_result
    /\ started' = TRUE
    /\ UNCHANGED <<disk, mounted, cacheVars, handler, served, diskOps, previewVars>>

\* A request arrives.
Receive(h, req) ==
    /\ startup_complete
    /\ served < MaxRequests
    /\ handler[h].pc \in {"idle", "done"}
    /\ handler' = [handler EXCEPT ![h] =
            [Idle EXCEPT !.pc = "queued", !.endpoint = req.endpoint,
                         !.set_number = req.set_number,
                         !.quadrant = req.quadrant]]
    /\ served' = served + 1
    /\ UNCHANGED <<disk, discoveryVars, available_sets, started, mounted, cacheVars,
                   diskOps, previewVars>>

\* get_image_sets (lines 80-82).
get_image_sets(h) ==
    LET r == handler[h] IN
    /\ r.pc = "queued"
    /\ r.endpoint = "sets"
    /\ CanStart(h)
    /\ handler' = [handler EXCEPT ![h] =
            [r EXCEPT !.pc = "done", !.status = 200, !.sets = available_sets]]
    /\ UNCHANGED <<disk, discoveryVars, available_sets, started, mounted,
                   cacheVars, served, diskOps, previewVars>>

\* get_image_urls (lines 85-92).
get_image_urls(h) ==
    LET r == handler[h]
        urls == get_image_urls_for_set(r.set_number)
    IN
    /\ r.pc = "queued"
    /\ r.endpoint = "urls"
    /\ CanStart(h)
    /\ handler' = [handler EXCEPT ![h] =
            IF set_not_found(h) THEN HTTPException(r, 404)
            ELSE IF urls = NoUrls THEN HTTPException(r, 500)
            ELSE [r EXCEPT !.pc = "done", !.status = 200, !.urls = urls]]
    /\ UNCHANGED <<disk, discoveryVars, available_sets, started, mounted,
                   cacheVars, served, diskOps, previewVars>>

\* get_image_preview, lines 106-116: the three checks before the load.
get_image_preview(h) ==
    LET r == handler[h] IN
    /\ r.pc = "queued"
    /\ r.endpoint = "preview"
    /\ CanStart(h)
    /\ handler' = [handler EXCEPT ![h] =
            IF set_not_found(h)
            THEN HTTPException(r, 404)
            ELSE IF r.quadrant \notin Quadrants
            THEN HTTPException(r, 404)
            ELSE LET r1 == [r EXCEPT !.existed = exists(disk, filepath(h))]
                 IN  IF path_not_found(h)
                     THEN HTTPException(r1, 404)
                     ELSE [r1 EXCEPT !.pc = "load"]]
    /\ UNCHANGED <<disk, discoveryVars, available_sets, started, mounted, cacheVars,
                   served, diskOps, previewVars>>

\* load_full_image(filepath) from the handler: the lru_cache lookup and, on
\* a miss, the os.path.exists of line 109. A hit, and a miss on a missing
\* file, return to the handler, which runs to its response.
load_full_image(h) ==
    LET r == handler[h]
        p == filepath(h)
    IN
    /\ r.pc = "load"
    /\ IF p \in CacheKeys(cache)
       THEN /\ cache' = cache_hit(cache, p)
            /\ since' = Accessed(since, p)
            /\ UNCHANGED reloaded
            /\ \E pf \in PreviewOutcomes :
                 handler' = [handler EXCEPT ![h] =
                    respond([r EXCEPT !.hit = TRUE], cache_get(cache, p), pf)]
       ELSE IF ~exists(disk, p)
       THEN /\ cache' = cache_put(cache, p, None)
            /\ since' = Accessed(since, p)
            /\ reloaded' = Missed(p)
            /\ handler' = [handler EXCEPT ![h] = respond(r, None, "ok")]
       ELSE /\ handler' = [handler EXCEPT ![h].pc = "decode"]
            /\ UNCHANGED cacheVars
    /\ UNCHANGED <<disk, discoveryVars, available_sets, started, mounted, served,
                   diskOps, previewVars>>

\* The rest of the miss: imread, normalize_image, the lru_cache storing the
\* result, and the handler running to its response.
load_full_image_decode(h) ==
    LET r == handler[h]
        p == filepath(h)
    IN
    /\ r.pc = "decode"
    /\ \E imf \in Faults, nf \in Faults, pf \in PreviewOutcomes :
         LET res == load_decode(disk[p], imf, nf)
             dec == imread(disk[p], imf).ok
         IN  /\ cache' = cache_put(cache, p, res)
             /\ since' = Accessed(since, p)
             /\ reloaded' = Missed(p)
             /\ handler' = [handler EXCEPT ![h] =
                    respond([r EXCEPT !.decoded = dec], res, pf)]
    /\ UNCHANGED <<disk, discoveryVars, available_sets, started, mounted, served,
                   diskOps, previewVars>>

\* load_full_image(p) called on its own, with nothing else running and no
\* fault: the whole call.
DirectLoad(p) ==
    /\ IF p \in CacheKeys(cache)
       THEN /\ cache' = cache_hit(cache, p)
            /\ UNCHANGED reloaded
       ELSE /\ cache' = cache_put(cache, p,
                    IF ~exists(disk, p) THEN None
                    ELSE load_decode(disk[p], "none", "none"))
            /\ reloaded' = Missed(p)
    /\ since' = Accessed(since, p)
    /\ UNCHANGED <<disk, discoveryVars, available_sets, started, mounted, handler,
                   served, diskOps, previewVars>>

----------------------------------------------------------------------------
(* Specifications.                                                          *)

InitCommon ==
    /\ findCache = NoMemo
    /\ scanCount = 0
    /\ firstReturned = <<>>
    /\ findReturned = <<>>
    /\ findCalls = 0
    /\ available_sets = <<>>
    /\ started = FALSE
    /\ cache = <<>>
    /\ since = <<>>
    /\ reloaded = {}
    /\ handler = [h \in Handlers |-> Idle]
    /\ served = 0
    /\ diskOps = 0

\* No raster shape is followed.
NoPreview ==
    /\ img_shape = NoShape
    /\ resample = NotResampled

\* The service as main.py has been imported: the directories that exist
\* hold every file of the set, and the static routes are mounted up to the
\* first directory that does not exist.
DirsAtImport == {Dirs, Dirs \ {IMAGE_DIR_2}}

Init ==
    /\ \E dirs \in DirsAtImport :
         /\ disk = [f \in ServiceFiles |-> IF f.dir \in dirs THEN "img" ELSE Missing]
         /\ mounted = mount_static(dirs)
    /\ InitCommon
    /\ NoPreview

Next ==
    \/ \E f \in ServiceFiles, kind \in FileKinds : DiskWrite(f, kind)
    \/ lifespan
    \/ \E h \in Handlers, req \in Requests : Receive(h, req)
    \/ \E h \in Handlers : get_image_sets(h)
    \/ \E h \in Handlers : get_image_urls(h)
    \/ \E h \in Handlers : get_image_preview(h)
    \/ \E h \in Handlers : load_full_image(h)
    \/ \E h \in Handlers : load_full_image_decode(h)

Spec == Init /\ [][Next]_vars

\* Discovery alone: files come and go, find_available_image_sets is called.
FileChange(f) ==
    /\ disk' = [disk EXCEPT ![f] = IF disk[f] = Missing THEN "img" ELSE Missing]
    /\ UNCHANGED <<discoveryVars, available_sets, started, mounted, cacheVars,
                   handler, served, diskOps, previewVars>>

InitDiscovery ==
    /\ disk = [f \in DiscoveryFiles |-> Missing]
    /\ mounted = mount_static(Dirs)
    /\ InitCommon
    /\ NoPreview

NextDiscovery ==
    \/ \E f \in DiscoveryFiles : FileChange(f)
    \/ FindCall

SpecDiscovery == InitDiscovery /\ [][NextDiscovery]_vars

\* The cache alone.
NextFresh == {CachePath(i) : i \in {j \in 1..NumCachePaths :
                 /\ CachePath(j) \notin DOMAIN since
                 /\ \A k \in 1..(j - 1) : CachePath(k) \in DOMAIN since}}
HotPaths == {CachePath(i) : i \in 1..NumHot}

InitCache ==
    /\ disk = [f \in CachePaths |-> "img"]
    /\ mounted = mount_static(Dirs)
    /\ InitCommon
    /\ NoPreview

NextCache == \E p \in (HotPaths \cap DOMAIN since) \cup NextFresh : DirectLoad(p)

SpecCache == InitCache /\ [][NextCache]_vars

\* The preview of one raster: get_image_preview from line 123 on, given a
\* loaded raster of some shape, with no fault from outside.
MaxW == 801
MaxH == 3

preview_of_shape ==
    /\ ~resample.called
    /\ LET d == dsize(img_shape, Width)
           outcome == resample_outcome(img_shape, Width)
           r == respond([Idle EXCEPT !.pc = "load", !.endpoint = "preview"],
                        Raster("img"), outcome)
       IN  resample' = [called |-> TRUE, new_w |-> d.new_w, new_h |-> d.new_h,
                        outcome |-> outcome, status |-> r.status]
    /\ UNCHANGED <<disk, discoveryVars, available_sets, started, mounted,
                   cacheVars, handler, served, diskOps, img_shape>>

InitPreview ==
    /\ disk = [f \in ServiceFiles |-> "img"]
    /\ mounted = mount_static(Dirs)
    /\ InitCommon
    /\ \E h \in 1..MaxH, w \in 1..MaxW : img_shape = Shape(h, w)
    /\ resample = NotResampled

NextPreview == preview_of_shape

SpecPreview == InitPreview /\ [][NextPreview]_vars

----------------------------------------------------------------------------
(* Properties.                                                              *)

Done(h) == handler[h].pc = "done"
PreviewDone(h) == Done(h) /\ handler[h].endpoint = "preview"
InRegistry(h) == \E i \in 1..Len(available_sets) : available_sets[i] = handler[h].set_number
ValidQuadrant(h) == handler[h].quadrant \in {"tl", "tr", "bl", "br"}
Resident(p) == \E i \in 1..Len(cache) : cache[i].key = p

\* C1: a load_full_image call that returns absent leaves no entry for its
\* path in the image cache (so that the next call for the path tries
\* again): no entry of the cache holds the absent result.
C1_FailureNotCached ==
    \A i \in 1..Len(cache) : cache[i].value.ok

\* C2: every raster resident in the image cache has had CLAHE applied with
\* success; the cache never holds a raw decode.
C2_CacheHoldsNormalized ==
    \A i \in 1..Len(cache) : cache[i].value.ok => cache[i].value.clahe

\* C3: the image cache never holds more than 32 entries, and once 33
\* distinct valid paths have been loaded it holds exactly 32.
C3_CacheBounded ==
    /\ Len(cache) <= 32
    /\ Cardinality(DOMAIN since) >= 33 => Len(cache) = 32

C3_Witness ==
    /\ Cardinality(DOMAIN since) = 33
    /\ Len(cache) = 32
    /\ \A p \in DOMAIN since : disk[p] = "img"

\* C4: eviction is in least-recently-used order: a path that has been
\* loaded is resident exactly when fewer than 32 distinct other paths have
\* been accessed since its own most recent access (the miss that inserted
\* it or a later hit).
C4_LeastRecentlyUsedEvicted ==
    \A p \in DOMAIN since : Resident(p) <=> Cardinality(since[p]) < 32

\* The first path was hit again while 33 other paths were loaded and is
\* resident; the second was not and is evicted.
C4_Witness ==
    /\ Cardinality(DOMAIN since) >= 34
    /\ Resident(CachePath(1))
    /\ CachePath(2) \in DOMAIN since
    /\ ~Resident(CachePath(2))

C5_FourDigit(k) == Len(k) = 4 /\ \A i \in 1..4 : k[i] \in Digits
C5_Complete(k) ==
    /\ disk[Path(REFERENCE_DIR, k, SFX_TL)] # "missing"
    /\ disk[Path(REFERENCE_DIR, k, SFX_TR)] # "missing"
    /\ disk[Path(IMAGE_DIR_1, k, SFX_BL)] # "missing"
    /\ disk[Path(IMAGE_DIR_2, k, SFX_BR)] # "missing"
C5_Ascending(r) == \A i \in 1..Len(r), j \in 1..Len(r) : i < j => StrLess(r[i], r[j])
\* C5: the scan returns exactly the ascending, duplicate-free list of the
\* 4-digit keys whose four files all exist in the directories as they are
\* when it runs.
C5_DiscoveryExact ==
    [][scanCount' = scanCount + 1 =>
        /\ C5_Ascending(findReturned')
        /\ Range(findReturned') =
             {k \in {f.stem : f \in DOMAIN disk} : C5_FourDigit(k) /\ C5_Complete(k)}]_vars

\* A scan that returned both keys, in order.
C5_Witness ==
    /\ scanCount = 1
    /\ findReturned = <<Key(1), Key(2)>>

\* C6: the disk is scanned at most once, and every call returns the list
\* the first call returned, whatever has happened to the files since.
C6_ScannedOnce ==
    /\ scanCount <= 1
    /\ findCalls >= 1 => findReturned = firstReturned

\* A second call after the directories changed so that a scan would now
\* give another list.
C6_Witness ==
    /\ findCalls >= 2
    /\ scanCount = 1
    /\ findReturned # find_body(disk)

\* C7: get_image_preview answers 404 whenever the key is not in the
\* registry, the quadrant is none of tl/tr/bl/br, the file is missing when
\* the request checks it, or the load returns absent.
C7_PreviewNotFound ==
    \A h \in Handlers :
        PreviewDone(h) /\ (\/ ~InRegistry(h)
                    \/ ~ValidQuadrant(h)
                    \/ ~handler[h].existed
                    \/ handler[h].loaded = None)
        => handler[h].status = 404

\* A 404 for a missing file whose raster is still resident in the cache.
C7_Witness ==
    \E h \in Handlers :
        /\ PreviewDone(h) /\ InRegistry(h) /\ ValidQuadrant(h)
        /\ ~handler[h].existed
        /\ handler[h].status = 404
        /\ Resident(filepath(h))
        /\ cache_get(cache, filepath(h)).ok

\* C8: a 200 with image bytes only for a registered key, a valid quadrant,
\* a loaded raster and a resample+encode step that worked; a resample or
\* encode failure after a successful load is a 500 without bytes.
C8_PreviewSuccessOrInternalError ==
    \A h \in Handlers : PreviewDone(h) =>
        /\ handler[h].status = 200 =>
              /\ InRegistry(h) /\ ValidQuadrant(h)
              /\ handler[h].loaded.ok
              /\ handler[h].preview = "ok"
              /\ handler[h].body = [jpeg |-> TRUE, of |-> handler[h].loaded]
        /\ handler[h].body.jpeg => handler[h].status = 200
        /\ handler[h].loaded.ok /\ handler[h].preview \in {"exception", "encode_fail"}
              => handler[h].status = 500 /\ ~handler[h].body.jpeg

\* A loaded raster whose preview could not be made: a 500.
C8_Witness ==
    \E h \in Handlers :
        /\ PreviewDone(h)
        /\ handler[h].loaded.ok
        /\ handler[h].preview = "encode_fail"
        /\ handler[h].status = 500

\* C9: whenever the decode of the file succeeded, load_full_image returns a
\* raster, whatever happens inside normalize_image.
C9_DecodedMeansLoaded ==
    \A h \in Handlers : PreviewDone(h) /\ handler[h].decoded => handler[h].loaded.ok

C10_InFlight(p) == {h \in Handlers : handler[h].pc = "decode" /\ filepath(h) = p}
\* C10: the decode of a path is never run by two handlers at once, nor
\* while the path is resident in the cache.
C10_SingleDecode ==
    \A p \in DOMAIN disk :
        Cardinality(C10_InFlight(p)) + (IF Resident(p) THEN 1 ELSE 0) <= 1

\* Two requests for the same uncached path: one decoding, one waiting.
C10_Witness ==
    \E g \in Handlers, h \in Handlers :
        /\ g # h
        /\ handler[g].pc = "decode"
        /\ handler[h].pc = "queued"
        /\ handler[h].endpoint = "preview"
        /\ handler[h].set_number = handler[g].set_number
        /\ handler[h].quadrant = handler[g].quadrant
        /\ ~Resident(filepath(g))

\* C11: the image cache never holds two entries for one path, also after a
\* path that was evicted is loaded again.
C11_OneEntryPerPath ==
    \A i \in 1..Len(cache), j \in 1..Len(cache) :
        cache[i].key = cache[j].key => i = j

\* A full cache holding a path that was evicted and then loaded again.
C11_Witness ==
    /\ Len(cache) = 32
    /\ \E p \in reloaded : Resident(p)

\* C12: the registry is written once, by the startup half of lifespan and
\* before any handler has run; no step of a handler changes it, and every
\* answer of get_image_sets is the registry as it is.
C12_RegistryWrittenOnce ==
    /\ [][/\ (available_sets' # available_sets \/ started' # started) =>
                /\ ~started /\ started'
                /\ served = 0
                /\ \A h \in Handlers : handler[h] = Idle
          /\ handler' # handler => started /\ available_sets' = available_sets]_vars
    /\ [](\A h \in Handlers :
            Done(h) /\ handler[h].endpoint = "sets" =>
                handler[h].sets = available_sets)

\* Two answered requests, one of them the list, after a startup that found
\* a set.
C12_Witness ==
    /\ started
    /\ available_sets # <<>>
    /\ \E g \in Handlers, h \in Handlers :
         /\ g # h
         /\ Done(g) /\ handler[g].endpoint = "sets"
         /\ handler[g].sets = available_sets
         /\ PreviewDone(h) /\ handler[h].status = 200

\* C13: a load_full_image call for the path of the call before it returns
\* what that call returned, from the cache: the handler goes to its response
\* in the one step of the lookup, with no decode, and the cache keeps its
\* entries.
C13_SecondLoadFromCache ==
    [][\A h \in Handlers :
         (/\ handler[h].pc = "load"
          /\ handler'[h].pc # "load"
          /\ filepath(h) \in DOMAIN since
          /\ since[filepath(h)] = {})
         => /\ handler'[h].pc = "done"
            /\ handler'[h].hit
            /\ ~handler'[h].decoded
            /\ cache' = cache
            /\ \A g \in Handlers \ {h} :
                 (/\ PreviewDone(g) /\ handler[g].loaded # NotCalled
                  /\ filepath(g) = filepath(h))
                 => handler'[h].loaded = handler[g].loaded]_vars

\* Two answered requests for one path: the first decoded the file, the
\* second was a hit and got the same raster.
C13_Witness ==
    \E g \in Handlers, h \in Handlers :
        /\ g # h
        /\ PreviewDone(g) /\ PreviewDone(h)
        /\ handler[g].decoded /\ handler[g].loaded.ok
        /\ ~handler[g].hit
        /\ handler[h].hit
        /\ handler[h].set_number = handler[g].set_number
        /\ handler[h].quadrant = handler[g].quadrant
        /\ handler[h].loaded = handler[g].loaded
        /\ diskOps = 0

UrlsDone(h) == Done(h) /\ handler[h].endpoint = "urls"

\* C14 as stated: get_image_urls answers 404 for every key that is not in
\* the registry, and for every key of the registry a mapping with exactly
\* the four quadrants.
C14_UrlsFourQuadrants ==
    \A h \in Handlers : UrlsDone(h) =>
        IF ~InRegistry(h) THEN handler[h].status = 404
        ELSE /\ handler[h].status = 200
             /\ DOMAIN handler[h].urls = {"tl", "tr", "bl", "br"}

\* C14 amended: 404 for every key that is not in the registry; for a key of
\* the registry either the mapping with exactly the four quadrants, or,
\* when a URL cannot be constructed, a 500 without a mapping; never a 404.
C14_UrlsOrInternalError ==
    \A h \in Handlers : UrlsDone(h) =>
        IF ~InRegistry(h)
        THEN handler[h].status = 404 /\ handler[h].urls = NoUrls
        ELSE \/ /\ handler[h].status = 200
                /\ DOMAIN handler[h].urls = {"tl", "tr", "bl", "br"}
                /\ \A q \in DOMAIN handler[h].urls :
                     handler[h].urls[q].route \in mounted
             \/ /\ handler[h].status = 500
                /\ handler[h].urls = NoUrls
                /\ {"static_ref", "static_img1", "static_img2"} \ mounted # {}

\* One key of the registry whose URLs could not be constructed, and one key
\* that is not in the registry.
C14_Witness ==
    \E g \in Handlers, h \in Handlers :
        /\ UrlsDone(g) /\ InRegistry(g) /\ handler[g].status = 500
        /\ UrlsDone(h) /\ ~InRegistry(h) /\ handler[h].status = 404
        /\ available_sets # <<>>

C15_Abs(x) == IF x < 0 THEN -x ELSE x

\* C15: for every raster of width w >= 1 and height h that is resized, the
\* result has width exactly 400 and height round(h * 400 / w), the nearest
\* integer: |new_h - h * 400 / w| <= 1/2.
C15_HeightRounded ==
    resample.called /\ resample.outcome = "ok" =>
        /\ resample.new_w = 400
        /\ 2 * C15_Abs(resample.new_h * img_shape.w - img_shape.h * 400) <= img_shape.w

\* C16: a scan that finds no candidate key, or candidates and no complete
\* set, ends the startup with an empty registry; from then on
\* get_image_sets answers the empty list and every get_image_urls and
\* get_image_preview request is answered 404.
C16_EmptyRegistryServes ==
    /\ [][(/\ ~started /\ started'
           /\ potential_numbers(disk) = {} \/ complete_sets(disk) = <<>>)
          => available_sets' = <<>>]_vars
    /\ [](started /\ available_sets = <<>> =>
            \A h \in Handlers : Done(h) =>
                IF handler[h].endpoint = "sets"
                THEN handler[h].status = 200 /\ handler[h].sets = <<>>
                ELSE handler[h].status = 404)

\* The startup found a candidate and no complete set; the list was asked
\* for, and the preview of a file that exists.
C16_Witness ==
    /\ started
    /\ available_sets = <<>>
    /\ potential_numbers(disk) # {}
    /\ diskOps = 0
    /\ \E g \in Handlers, h \in Handlers :
         /\ Done(g) /\ handler[g].endpoint = "sets" /\ handler[g].sets = <<>>
         /\ PreviewDone(h) /\ ValidQuadrant(h)
         /\ exists(disk, filepath(h))
         /\ handler[h].status = 404

\* C17: a get_image_preview request whose key is not in the registry, whose
\* quadrant is invalid or whose file does not exist when the request checks
\* it is answered in that step without a call of load_full_image; the cache
\* keeps its entries and their order.
C17_RejectedLeavesCache ==
    /\ [][\A h \in Handlers :
            (/\ handler[h].pc = "queued"
             /\ handler[h].endpoint = "preview"
             /\ handler'[h].pc # "queued"
             /\ \/ ~InRegistry(h)
                \/ ~ValidQuadrant(h)
                \/ ~exists(disk, filepath(h)))
            => /\ handler'[h].pc = "done"
               /\ handler'[h].status = 404
               /\ handler'[h].loaded = NotCalled
               /\ cache' = cache
               /\ since' = since]_vars
    /\ [](\A h \in Handlers :
            (PreviewDone(h) /\ (\/ ~InRegistry(h)
                                \/ ~ValidQuadrant(h)
                                \/ ~handler[h].existed))
            => /\ handler[h].loaded = NotCalled
               /\ ~handler[h].hit
               /\ ~handler[h].decoded)

\* A request rejected for its missing file while the cache holds the raster
\* of another path.
C17_Witness ==
    \E h \in Handlers :
        /\ PreviewDone(h) /\ InRegistry(h) /\ ValidQuadrant(h)
        /\ ~handler[h].existed
        /\ handler[h].loaded = NotCalled
        /\ Len(cache) = 1
        /\ ~Resident(filepath(h))

\* C18: every key of the image cache is one of the four quadrant paths of
\* a key of the registry.
C18_CacheKeysRegistered ==
    \A i \in 1..Len(cache) :
        \E k \in Range(available_sets), q \in Quadrants :
            cache[i].key = get_filenames(k)[q]

\* One request loaded a path of a registered key, another asked for a key
\* that is not registered.
C18_Witness ==
    /\ Len(cache) = 1
    /\ \E g \in Handlers, h \in Handlers :
         /\ PreviewDone(g) /\ InRegistry(g) /\ handler[g].status = 200
         /\ cache[1].key = filepath(g)
         /\ PreviewDone(h) /\ ~InRegistry(h) /\ ValidQuadrant(h)
         /\ handler[h].status = 404

\* C19: for every loaded raster of width and height at least 1 the target
\* height that create_low_res_preview computes is at least 1, and the
\* request is not answered 500 on account of the preview dimensions.
C19_HeightAtLeastOne ==
    resample.called /\ img_shape.w >= 1 /\ img_shape.h >= 1 =>
        /\ resample.new_h >= 1
        /\ resample.status # 500

====
